---- MODULE Spec2Model ----
(***************************************************************************)
(* A model of frb_codegen: the pipeline of main (src/frb_codegen/src/      *)
(* main.rs) and the struct generator TypeStructRefGenerator                *)
(* (src/frb_codegen/src/generator/rust/ty_struct.rs).                      *)
(*                                                                         *)
(* Text is modelled as a sequence of tokens; the concatenation of strings  *)
(* is the concatenation of token sequences.                                *)
(*                                                                         *)
(* Spec    : one run of main, one action per statement of main.            *)
(* SpecGen : calls of the struct generator's entry points, in any order,   *)
(*           on the structs of a read-only IR file.                        *)
(*                                                                         *)
(* File-system primitives (fs::write, fs::read_to_string, create_dir_all,  *)
(* tempfile) are assumed to succeed; the failures modelled are the fatal   *)
(* errors of the phases and of the external tools.                         *)
(***************************************************************************)
EXTENDS Integers, Sequences, FiniteSets, TLC

\* the largest number of fields of a struct
MaxFields == 2

VARIABLES
    pc,                  \* position of main
    error,               \* the fatal error that aborted the run, or "none"
    config,              \* the parsed configuration
    files,               \* the file system: path -> file
    ir_file,             \* the IR file
    generated_rust,      \* result of generator::rust::generate
    generated_dart,      \* result of generator::dart::generate
    content_original,    \* with_changed_file: the saved content
    bindgen_status,      \* "none", "ok" or "failed"
    binder_saw,          \* the native file's text as the binder read it
    generated_dart_wire, \* the post-processed transport declarations
    events,              \* history of the effects of the run, in order
    collector,           \* the ExternFuncCollector handed to new_with_nullptr
    out,                 \* the last generator call and its result
    repeated             \* the last generator call repeated the one before

vars == <<pc, error, config, files, ir_file, generated_rust, generated_dart,
          content_original, bindgen_status, binder_saw, generated_dart_wire,
          events, collector, out, repeated>>

mainVars == <<pc, error, config, files, generated_rust, generated_dart,
              content_original, bindgen_status, binder_saw,
              generated_dart_wire, events>>

genVars == <<collector, out, repeated>>

(***************************************************************************)
(* Helpers on sequences                                                    *)
(***************************************************************************)
Range(s) == {s[i] : i \in 1..Len(s)}

IndexOf(s, x) == IF x \in Range(s) THEN CHOOSE i \in 1..Len(s) : s[i] = x ELSE 0

RECURSIVE Flatten(_)
Flatten(ss) == IF ss = <<>> THEN <<>> ELSE Head(ss) \o Flatten(Tail(ss))

(***************************************************************************)
(* The file system                                                         *)
(***************************************************************************)
Paths == {"rust_input", "rust_output", "c_output", "dart_output",
          "dart_decl_output", "lib_rs", "temp_c", "temp_dart"}

NoFile == [exists |-> FALSE, text |-> <<>>, formatted |-> FALSE]

FsWrite(fs, path, text) ==
    [fs EXCEPT ![path] = [exists |-> TRUE, text |-> text, formatted |-> FALSE]]

\* An external formatter rewrites the file in place; a failure is logged and
\* leaves the file as it was.
FsFormat(fs, path, ok) ==
    IF ok /\ fs[path].exists
    THEN [fs EXCEPT ![path].formatted = TRUE]
    ELSE fs

(***************************************************************************)
(* Inputs                                                                  *)
(***************************************************************************)
FuncNames == {"f1", "f2"}

\* The exported functions declared by the source file, in declared order.
Sources == {<<>>, <<"f1">>, <<"f2">>, <<"f1", "f2">>, <<"f2", "f1">>}

NoConfig == [parsed |-> FALSE, has_decl |-> FALSE, skip_add_mod_to_lib |-> FALSE]

Configs == [parsed : {TRUE}, has_decl : BOOLEAN, skip_add_mod_to_lib : BOOLEAN]

DartWireClassName == "BridgeWire"

DUMMY_WIRE_CODE_FOR_BINDGEN == <<"dummy_wire_code">>

EXTRA_EXTERN_FUNC_NAMES == <<"store_dart_post_cobject">>

NoIr == [funcs |-> <<>>, struct_pool |-> <<>>, transformed |-> FALSE]

NoRust == [code |-> <<>>, extern_func_names |-> <<>>]

EmptyCode == [import |-> <<>>, part |-> <<>>, body |-> <<>>]

NoDart == [file_prelude |-> EmptyCode, decl_code |-> EmptyCode, impl_code |-> EmptyCode]

(***************************************************************************)
(* DartBasicCode: three streams, added streamwise, rendered in order       *)
(***************************************************************************)
CodePlus(a, b) ==
    [import |-> a.import \o b.import,
     part   |-> a.part \o b.part,
     body   |-> a.body \o b.body]

ToText(c) == c.import \o c.part \o c.body

(***************************************************************************)
(* The generators called by main                                           *)
(***************************************************************************)
WireName(f) == "wire_" \o f

\* generator::rust::generate: the code and the tracked exported names
RustGenerate(ir) ==
    [code |-> <<"rust_header">> \o Flatten([i \in 1..Len(ir.funcs) |-> <<"fn", WireName(ir.funcs[i])>>]),
     extern_func_names |-> [i \in 1..Len(ir.funcs) |-> WireName(ir.funcs[i])]]

\* generator::dart::generate: prelude, declarations and implementation
DartGenerate(ir) ==
    [file_prelude |-> [import |-> <<>>, part |-> <<>>, body |-> <<"prelude">>],
     decl_code    |-> [import |-> <<"import_decl_deps">>, part |-> <<>>,
                       body |-> <<"abstract_class">> \o ir.funcs],
     impl_code    |-> [import |-> <<"import_impl_deps">>, part |-> <<>>,
                       body |-> <<"impl_class">> \o ir.funcs]]

\* generator::c::generate_dummy: one reference per function name
GenerateDummy(names) ==
    <<"dummy_method_to_enforce_bundling">>
        \o Flatten([i \in 1..Len(names) |-> <<"keep", names[i]>>])

(***************************************************************************)
(* The external binder and the post-processing of its output               *)
(***************************************************************************)
\* What the binder may emit: the wire class (or not), and any of the
\* exported names, in the order of the native code.
BinderSymbols(names) == SUBSET Range(names)

RECURSIVE SelectSeq2(_, _)
SelectSeq2(s, keep) ==
    IF s = <<>> THEN <<>>
    ELSE (IF Head(s) \in keep THEN <<Head(s)>> ELSE <<>>) \o SelectSeq2(Tail(s), keep)

BinderHeader(names, seen) ==
    <<"cbindgen_header">> \o SelectSeq2(names, seen)

BinderWire(names, seen, has_class) ==
    <<"ffigen_banner", "import_ffi">>
        \o (IF has_class THEN <<"class", DartWireClassName>> ELSE <<>>)
        \o SelectSeq2(names, seen)

\* modify_dart_wire_content: strips the binder's boilerplate
ModifyDartWireContent(raw) == SelectSeq(raw, LAMBDA t : t # "ffigen_banner")

\* extract_dart_wire_content: the imports go to the import stream, the rest
\* to the body
ExtractDartWireContent(text) ==
    [import |-> SelectSeq(text, LAMBDA t : t = "import_ffi"),
     part   |-> <<>>,
     body   |-> SelectSeq(text, LAMBDA t : t # "import_ffi")]

\* sanity_check(body, class name): the body must mention the wire class
SanityCheckPasses(body, class_name) == class_name \in Range(body)

(***************************************************************************)
(* Reorderings of the statements of main, each a slip of the hand          *)
(***************************************************************************)
\* the C header is written before the binder has run
MainSteps_HeaderBeforeBinder ==
    << "ensure_tools", "parse_config", "read_source", "parse_ir", "transform",
       "generate_rust", "write_rust", "generate_dart", "format_rust",
       "add_mod_to_lib", "create_temp_files", "write_c", "with_changed_file",
       "read_dart_wire", "sanity_check", "write_dart",
       "format_dart", "format_dart_decl", "success", "done" >>

\* the native formatter runs after the binder
MainSteps_FormatRustAfterBinder ==
    << "ensure_tools", "parse_config", "read_source", "parse_ir", "transform",
       "generate_rust", "write_rust", "generate_dart",
       "add_mod_to_lib", "create_temp_files", "with_changed_file", "format_rust",
       "write_c", "read_dart_wire", "sanity_check", "write_dart",
       "format_dart", "format_dart_decl", "success", "done" >>

\* the sanity check runs after the managed-language files are written
MainSteps_SanityAfterDart ==
    << "ensure_tools", "parse_config", "read_source", "parse_ir", "transform",
       "generate_rust", "write_rust", "generate_dart", "format_rust",
       "add_mod_to_lib", "create_temp_files", "with_changed_file",
       "write_c", "read_dart_wire", "write_dart", "sanity_check",
       "format_dart", "format_dart_decl", "success", "done" >>

\* the sanity check is not called
MainSteps_NoSanityCheck ==
    << "ensure_tools", "parse_config", "read_source", "parse_ir", "transform",
       "generate_rust", "write_rust", "generate_dart", "format_rust",
       "add_mod_to_lib", "create_temp_files", "with_changed_file",
       "write_c", "read_dart_wire", "write_dart",
       "format_dart", "format_dart_decl", "success", "done" >>

\* the transport declarations are read before the binder has run
MainSteps_ReadWireBeforeBinder ==
    << "ensure_tools", "parse_config", "read_source", "parse_ir", "transform",
       "generate_rust", "write_rust", "generate_dart", "format_rust",
       "add_mod_to_lib", "create_temp_files", "read_dart_wire", "with_changed_file",
       "write_c", "sanity_check", "write_dart",
       "format_dart", "format_dart_decl", "success", "done" >>

\* the managed-language formatter runs before the managed-language files
\* are written
MainSteps_FormatDartBeforeWrite ==
    << "ensure_tools", "parse_config", "read_source", "parse_ir", "transform",
       "generate_rust", "write_rust", "generate_dart", "format_rust",
       "add_mod_to_lib", "create_temp_files", "with_changed_file",
       "write_c", "read_dart_wire", "sanity_check", "format_dart", "write_dart",
       "format_dart_decl", "success", "done" >>

\* the configuration is parsed before the tools are looked for
MainSteps_ConfigBeforeTools ==
    << "parse_config", "ensure_tools", "read_source", "parse_ir", "transform",
       "generate_rust", "write_rust", "generate_dart", "format_rust",
       "add_mod_to_lib", "create_temp_files", "with_changed_file",
       "write_c", "read_dart_wire", "sanity_check", "write_dart",
       "format_dart", "format_dart_decl", "success", "done" >>

(***************************************************************************)
(* The statements of main, in order                                        *)
(***************************************************************************)
MainSteps ==
    << "ensure_tools", "parse_config", "read_source", "parse_ir", "transform",
       "generate_rust", "write_rust", "generate_dart", "format_rust",
       "add_mod_to_lib", "create_temp_files", "with_changed_file",
       "write_c", "read_dart_wire", "sanity_check", "write_dart",
       "format_dart", "format_dart_decl", "success", "done" >>

After(p) == MainSteps[IndexOf(MainSteps, p) + 1]

Log(e) == events' = Append(events, e)

Abort(e) == pc' = "aborted" /\ error' = e

(***************************************************************************)
(* Init                                                                    *)
(***************************************************************************)
InitMain ==
    /\ pc = Head(MainSteps)
    /\ error = "none"
    /\ config = NoConfig
    /\ \E src \in Sources :
         files = [p \in Paths |->
                    IF p = "rust_input" THEN [exists |-> TRUE, text |-> src, formatted |-> FALSE]
                    ELSE IF p = "lib_rs" THEN [exists |-> TRUE, text |-> <<"lib">>, formatted |-> FALSE]
                    ELSE NoFile]
    /\ generated_rust = NoRust
    /\ generated_dart = NoDart
    /\ content_original = NoFile
    /\ bindgen_status = "none"
    /\ binder_saw = <<>>
    /\ generated_dart_wire = EmptyCode
    /\ events = <<>>

NoCall == [entry |-> "none", name |-> "none", some |-> FALSE, text |-> <<>>, list |-> <<>>]

Init ==
    /\ InitMain
    /\ ir_file = NoIr
    /\ collector = <<>>
    /\ out = NoCall
    /\ repeated = FALSE

(***************************************************************************)
(* The actions of main                                                     *)
(***************************************************************************)
\* line 28
EnsureToolsAvailable ==
    /\ pc = "ensure_tools"
    /\ \E ok \in BOOLEAN :
         IF ok THEN pc' = After("ensure_tools") /\ error' = error
               ELSE Abort("ToolInvocationError")
    /\ Log("ensure_tools")
    /\ UNCHANGED <<config, files, ir_file, generated_rust, generated_dart,
                   content_original, bindgen_status, binder_saw,
                   generated_dart_wire,
                   collector, out, repeated>>

\* line 30
ParseConfig ==
    /\ pc = "parse_config"
    /\ \E c \in Configs : config' = c
    /\ pc' = After("parse_config")
    /\ Log("parse_config")
    /\ UNCHANGED <<error, files, ir_file, generated_rust, generated_dart,
                   content_original, bindgen_status, binder_saw,
                   generated_dart_wire,
                   collector, out, repeated>>

\* lines 38-39
ReadSource ==
    /\ pc = "read_source"
    /\ \E ok \in BOOLEAN :
         IF ok THEN pc' = After("read_source") /\ error' = error
               ELSE Abort("ParseError")
    /\ Log("read_source")
    /\ UNCHANGED <<config, files, ir_file, generated_rust, generated_dart,
                   content_original, bindgen_status, binder_saw,
                   generated_dart_wire,
                   collector, out, repeated>>

\* line 42
ParseIr ==
    /\ pc = "parse_ir"
    /\ \E ok \in BOOLEAN :
         IF ok
         THEN /\ pc' = After("parse_ir")
              /\ error' = error
              /\ ir_file' = [funcs |-> files["rust_input"].text,
                             struct_pool |-> <<>>, transformed |-> FALSE]
         ELSE Abort("ParseError") /\ ir_file' = ir_file
    /\ Log("parse_ir")
    /\ UNCHANGED <<config, files, generated_rust, generated_dart,
                   content_original, bindgen_status, binder_saw,
                   generated_dart_wire,
                   collector, out, repeated>>

\* line 46
TransformIr ==
    /\ pc = "transform"
    /\ \E ok \in BOOLEAN :
         IF ok
         THEN /\ pc' = After("transform")
              /\ error' = error
              /\ ir_file' = [ir_file EXCEPT !.transformed = TRUE]
         ELSE Abort("ResolutionError") /\ ir_file' = ir_file
    /\ Log("transform")
    /\ UNCHANGED <<config, files, generated_rust, generated_dart,
                   content_original, bindgen_status, binder_saw,
                   generated_dart_wire,
                   collector, out, repeated>>

\* lines 50-53
GenerateRust ==
    /\ pc = "generate_rust"
    /\ generated_rust' = RustGenerate(ir_file)
    /\ pc' = After("generate_rust")
    /\ Log("generate_rust")
    /\ UNCHANGED <<error, config, files, ir_file, generated_dart,
                   content_original, bindgen_status, binder_saw,
                   generated_dart_wire,
                   collector, out, repeated>>

\* lines 54-55
WriteRust ==
    /\ pc = "write_rust"
    /\ files' = FsWrite(files, "rust_output", generated_rust.code)
    /\ pc' = After("write_rust")
    /\ Log("write_rust")
    /\ UNCHANGED <<error, config, ir_file, generated_rust, generated_dart,
                   content_original, bindgen_status, binder_saw,
                   generated_dart_wire,
                   collector, out, repeated>>

\* lines 58-63
GenerateDart ==
    /\ pc = "generate_dart"
    /\ generated_dart' = DartGenerate(ir_file)
    /\ pc' = After("generate_dart")
    /\ Log("generate_dart")
    /\ UNCHANGED <<error, config, files, ir_file, generated_rust,
                   content_original, bindgen_status, binder_saw,
                   generated_dart_wire,
                   collector, out, repeated>>

\* line 67
FormatRust ==
    /\ pc = "format_rust"
    /\ \E ok \in BOOLEAN : files' = FsFormat(files, "rust_output", ok)
    /\ pc' = After("format_rust")
    /\ Log("format_rust")
    /\ UNCHANGED <<error, config, ir_file, generated_rust, generated_dart,
                   content_original, bindgen_status, binder_saw,
                   generated_dart_wire,
                   collector, out, repeated>>

\* slip: the module line is added to the generated file, not to lib.rs
TryAddModToLib_ToRustOutput ==
    /\ pc = "add_mod_to_lib"
    /\ IF ~config.skip_add_mod_to_lib
       THEN /\ files' = FsWrite(files, "rust_output",
                                files["rust_output"].text \o <<"mod_bridge_generated">>)
            /\ Log("add_mod_to_lib")
       ELSE UNCHANGED <<files, events>>
    /\ pc' = After("add_mod_to_lib")
    /\ UNCHANGED <<error, config, ir_file, generated_rust, generated_dart,
                   content_original, bindgen_status, binder_saw,
                   generated_dart_wire,
                   collector, out, repeated>>

\* lines 69-71
TryAddModToLib ==
    /\ pc = "add_mod_to_lib"
    /\ IF ~config.skip_add_mod_to_lib
       THEN /\ files' = FsWrite(files, "lib_rs", files["lib_rs"].text \o <<"mod_bridge_generated">>)
            /\ Log("add_mod_to_lib")
       ELSE UNCHANGED <<files, events>>
    /\ pc' = After("add_mod_to_lib")
    /\ UNCHANGED <<error, config, ir_file, generated_rust, generated_dart,
                   content_original, bindgen_status, binder_saw,
                   generated_dart_wire,
                   collector, out, repeated>>

\* lines 85-86
CreateTempFiles ==
    /\ pc = "create_temp_files"
    /\ files' = FsWrite(FsWrite(files, "temp_c", <<>>), "temp_dart", <<>>)
    /\ pc' = After("create_temp_files")
    /\ Log("create_temp_files")
    /\ UNCHANGED <<error, config, ir_file, generated_rust, generated_dart,
                   content_original, bindgen_status, binder_saw,
                   generated_dart_wire,
                   collector, out, repeated>>

\* lines 87-89: with_changed_file saves the content and appends the dummy code
WithChangedFileEnter ==
    /\ pc = "with_changed_file"
    /\ content_original' = files["rust_output"]
    /\ files' = FsWrite(files, "rust_output",
                        files["rust_output"].text \o DUMMY_WIRE_CODE_FOR_BINDGEN)
    /\ pc' = "bindgen"
    /\ Log("swap")
    /\ UNCHANGED <<error, config, ir_file, generated_rust, generated_dart,
                   bindgen_status, binder_saw, generated_dart_wire,
                   collector, out, repeated>>

\* lines 90-104: the callback
BindgenRustToDart ==
    /\ pc = "bindgen"
    /\ binder_saw' = files["rust_output"].text
    /\ \E ok \in BOOLEAN :
         IF ok
         THEN /\ bindgen_status' = "ok"
              /\ \E seen \in BinderSymbols(generated_rust.extern_func_names),
                    has_class \in BOOLEAN :
                   files' = FsWrite(
                              FsWrite(files, "temp_c",
                                      BinderHeader(generated_rust.extern_func_names, seen)),
                              "temp_dart",
                              BinderWire(generated_rust.extern_func_names, seen, has_class))
         ELSE /\ bindgen_status' = "failed"
              /\ files' = files
    /\ pc' = "restore"
    /\ Log("bindgen")
    /\ UNCHANGED <<error, config, ir_file, generated_rust, generated_dart,
                   content_original, generated_dart_wire,
                   collector, out, repeated>>

\* line 105: with_changed_file restores the content, whatever the callback did
WithChangedFileExit ==
    /\ pc = "restore"
    /\ files' = [files EXCEPT !["rust_output"] = content_original]
    /\ IF bindgen_status = "ok"
       THEN pc' = After("with_changed_file") /\ error' = error
       ELSE Abort("ToolInvocationError")
    /\ Log("restore")
    /\ UNCHANGED <<config, ir_file, generated_rust, generated_dart,
                   content_original, bindgen_status, binder_saw,
                   generated_dart_wire,
                   collector, out, repeated>>

\* slip: the fixed extra names are left out
EffectiveFuncNames_WithoutExtra == generated_rust.extern_func_names

\* lines 107-111
EffectiveFuncNames == generated_rust.extern_func_names \o EXTRA_EXTERN_FUNC_NAMES

\* slip: the header is written to the native output path
WriteCHeader_ToRustPath ==
    /\ pc = "write_c"
    /\ files' = FsWrite(files, "rust_output",
                        files["temp_c"].text \o <<"\n">>
                            \o GenerateDummy(EffectiveFuncNames))
    /\ pc' = After("write_c")
    /\ Log("write_c")
    /\ UNCHANGED <<error, config, ir_file, generated_rust, generated_dart,
                   content_original, bindgen_status, binder_saw,
                   generated_dart_wire,
                   collector, out, repeated>>

\* lines 112-118
WriteCHeader ==
    /\ pc = "write_c"
    /\ files' = FsWrite(files, "c_output",
                        files["temp_c"].text \o <<"\n">>
                            \o GenerateDummy(EffectiveFuncNames))
    /\ pc' = After("write_c")
    /\ Log("write_c")
    /\ UNCHANGED <<error, config, ir_file, generated_rust, generated_dart,
                   content_original, bindgen_status, binder_saw,
                   generated_dart_wire,
                   collector, out, repeated>>

\* lines 120-125
ReadDartWire ==
    /\ pc = "read_dart_wire"
    /\ generated_dart_wire' =
         ExtractDartWireContent(ModifyDartWireContent(files["temp_dart"].text))
    /\ pc' = After("read_dart_wire")
    /\ Log("read_dart_wire")
    /\ UNCHANGED <<error, config, files, ir_file, generated_rust, generated_dart,
                   content_original, bindgen_status, binder_saw,
                   collector, out, repeated>>

\* line 127
SanityCheck ==
    /\ pc = "sanity_check"
    /\ IF SanityCheckPasses(generated_dart_wire.body, DartWireClassName)
       THEN pc' = After("sanity_check") /\ error' = error /\ Log("sanity_ok")
       ELSE Abort("SanityCheckError") /\ Log("sanity_failed")
    /\ UNCHANGED <<config, files, ir_file, generated_rust, generated_dart,
                   content_original, bindgen_status, binder_saw,
                   generated_dart_wire,
                   collector, out, repeated>>

\* slip: the binder's wire code is not added to the implementation
GeneratedDartImplAll_WithoutWire == generated_dart.impl_code

\* lines 129-130
GeneratedDartDeclAll == generated_dart.decl_code

GeneratedDartImplAll == CodePlus(generated_dart.impl_code, generated_dart_wire)

\* lines 132-142
ImplImportDecl == [import |-> <<"import_decl_file">>, part |-> <<>>, body |-> <<>>]

\* lines 131, 143-147
WriteDartDecl ==
    /\ pc = "write_dart"
    /\ config.has_decl
    /\ files' = FsWrite(files, "dart_decl_output",
                        ToText(CodePlus(generated_dart.file_prelude, GeneratedDartDeclAll)))
    /\ pc' = "write_dart_impl"
    /\ Log("write_dart_decl")
    /\ UNCHANGED <<error, config, ir_file, generated_rust, generated_dart,
                   content_original, bindgen_status, binder_saw,
                   generated_dart_wire,
                   collector, out, repeated>>

\* lines 148-152
WriteDartImpl ==
    /\ pc = "write_dart_impl"
    /\ files' = FsWrite(files, "dart_output",
                        ToText(CodePlus(CodePlus(generated_dart.file_prelude, ImplImportDecl),
                                        GeneratedDartImplAll)))
    /\ pc' = After("write_dart")
    /\ Log("write_dart")
    /\ UNCHANGED <<error, config, ir_file, generated_rust, generated_dart,
                   content_original, bindgen_status, binder_saw,
                   generated_dart_wire,
                   collector, out, repeated>>

\* lines 153-160
WriteDartSingle ==
    /\ pc = "write_dart"
    /\ ~config.has_decl
    /\ files' = FsWrite(files, "dart_output",
                        ToText(CodePlus(CodePlus(generated_dart.file_prelude, GeneratedDartDeclAll),
                                        GeneratedDartImplAll)))
    /\ pc' = After("write_dart")
    /\ Log("write_dart")
    /\ UNCHANGED <<error, config, ir_file, generated_rust, generated_dart,
                   content_original, bindgen_status, binder_saw,
                   generated_dart_wire,
                   collector, out, repeated>>

\* line 162
FormatDart ==
    /\ pc = "format_dart"
    /\ \E ok \in BOOLEAN : files' = FsFormat(files, "dart_output", ok)
    /\ pc' = After("format_dart")
    /\ Log("format_dart")
    /\ UNCHANGED <<error, config, ir_file, generated_rust, generated_dart,
                   content_original, bindgen_status, binder_saw,
                   generated_dart_wire,
                   collector, out, repeated>>

\* lines 163-165
FormatDartDecl ==
    /\ pc = "format_dart_decl"
    /\ IF config.has_decl
       THEN /\ \E ok \in BOOLEAN : files' = FsFormat(files, "dart_decl_output", ok)
            /\ Log("format_dart_decl")
       ELSE UNCHANGED <<files, events>>
    /\ pc' = After("format_dart_decl")
    /\ UNCHANGED <<error, config, ir_file, generated_rust, generated_dart,
                   content_original, bindgen_status, binder_saw,
                   generated_dart_wire,
                   collector, out, repeated>>

\* line 167
Success ==
    /\ pc = "success"
    /\ pc' = After("success")
    /\ Log("success")
    /\ UNCHANGED <<error, config, files, ir_file, generated_rust, generated_dart,
                   content_original, bindgen_status, binder_saw,
                   generated_dart_wire,
                   collector, out, repeated>>

NextMain ==
    \/ EnsureToolsAvailable
    \/ ParseConfig
    \/ ReadSource
    \/ ParseIr
    \/ TransformIr
    \/ GenerateRust
    \/ WriteRust
    \/ GenerateDart
    \/ FormatRust
    \/ TryAddModToLib
    \/ CreateTempFiles
    \/ WithChangedFileEnter
    \/ BindgenRustToDart
    \/ WithChangedFileExit
    \/ WriteCHeader
    \/ ReadDartWire
    \/ SanityCheck
    \/ WriteDartDecl
    \/ WriteDartImpl
    \/ WriteDartSingle
    \/ FormatDart
    \/ FormatDartDecl
    \/ Success

Spec == Init /\ [][NextMain]_vars

(***************************************************************************)
(* The IR of structs (crate::ir)                                           *)
(***************************************************************************)
FieldNames == {"a", "b"}

StructNames == {"Point", "Size"}

\* IrType: a scalar by value, a list by pointer
Types == {[kind |-> "Primitive", of |-> "i32"],
          [kind |-> "PrimitiveList", of |-> "u8"]}

\* IrType::rust_wire_is_pointer
rust_wire_is_pointer(ty) == ty.kind \in {"Boxed", "PrimitiveList"}

\* IrType::rust_wire_modifier
rust_wire_modifier(ty) == IF rust_wire_is_pointer(ty) THEN "*mut " ELSE ""

\* IrType::rust_wire_type
rust_wire_type(ty) ==
    IF ty.kind = "PrimitiveList" THEN "wire_" \o ty.of \o "_list" ELSE ty.of

\* IrIdent::rust_style
rust_style(name) == name.raw

\* the name of the i-th field of a tuple struct, counted from 0
PositionalName(i) == [raw |-> "field" \o ToString(i)]

\* IrField::name_rust_style: a tuple struct's field is accessed by its index
name_rust_style(field, is_fields_named) ==
    IF is_fields_named
    THEN rust_style(field.name)
    ELSE IF \E i \in 0..MaxFields : field.name = PositionalName(i)
         THEN ToString(CHOOSE i \in 0..MaxFields : field.name = PositionalName(i))
         ELSE rust_style(field.name)

NamedFields ==
    UNION {{f \in [1..n -> [name : {[raw |-> x] : x \in FieldNames}, ty : Types]] :
                \A i, j \in 1..n : f[i].name = f[j].name => i = j}
           : n \in 0..MaxFields}

PositionalFields ==
    UNION {{[i \in 1..n |-> [name |-> PositionalName(i - 1), ty |-> t[i]]] : t \in [1..n -> Types]}
           : n \in 0..MaxFields}

NoPath == [some |-> FALSE, segments |-> <<>>]

ModulePaths == {NoPath, [some |-> TRUE, segments |-> <<"crate", "data">>]}

\* IrStruct, without its name
Structs ==
    [fields : NamedFields, is_fields_named : {TRUE}, path : ModulePaths]
        \cup [fields : PositionalFields, is_fields_named : {FALSE}, path : ModulePaths]

\* IrTypeStructRef::get: the declaration of the struct in the IR file
IrGet(ir, file) == file.struct_pool[ir.name]

\* IrStruct::brackets_pair
brackets_pair(s) == IF s.is_fields_named THEN <<"{", "}">> ELSE <<"(", ")">>

\* IrTypeStructRef::rust_api_type
StructRustApiType(ir) == ir.name

\* IrTypeStructRef::rust_wire_type
StructRustWireType(ir) == "wire_" \o ir.name

\* [String]::join
RECURSIVE Join(_, _)
Join(parts, sep) ==
    IF Len(parts) = 0 THEN <<>>
    ELSE IF Len(parts) = 1 THEN parts[1]
    ELSE parts[1] \o <<sep>> \o Join(Tail(parts), sep)

\* the generator of a struct reference in its context
Generator(name) == [ir |-> [name |-> name], context |-> [ir_file |-> ir_file]]

(***************************************************************************)
(* TypeStructRefGenerator                                                  *)
(***************************************************************************)
\* slip: the wire field is read under the API struct's name of the field
wire2api_field_api_names(api_struct, field) ==
    (IF api_struct.is_fields_named
     THEN <<rust_style(field.name), ": ">>
     ELSE <<>>)
        \o <<" self.", name_rust_style(field, api_struct.is_fields_named), ".wire2api()">>

\* slip: the label is emitted whatever the struct's flag
wire2api_field_always_labelled(api_struct, field) ==
    <<rust_style(field.name), ": ">>
        \o <<" self.", rust_style(field.name), ".wire2api()">>

\* lines 14-24: one entry of wire2api_body
wire2api_field(api_struct, field) ==
    (IF api_struct.is_fields_named
     THEN <<rust_style(field.name), ": ">>
     ELSE <<>>)
        \o <<" self.", rust_style(field.name), ".wire2api()">>

\* lines 9-36
wire2api_body(self) ==
    LET api_struct == IrGet(self.ir, self.context.ir_file)
        fields_str ==
            Join([i \in 1..Len(api_struct.fields) |->
                    wire2api_field(api_struct, api_struct.fields[i])], ",")
        pair == brackets_pair(api_struct)
    IN  <<StructRustApiType(self.ir), pair[1]>> \o fields_str \o <<pair[2]>>

\* lines 43-50: one entry of wire_struct_fields
wire_struct_field(field) ==
    <<rust_style(field.name), ": ", rust_wire_modifier(field.ty), rust_wire_type(field.ty)>>

\* slip: the fields are emitted last first
wire_struct_fields_reversed(self) ==
    LET s == IrGet(self.ir, self.context.ir_file)
        n == Len(s.fields)
    IN  [i \in 1..n |-> wire_struct_field(s.fields[n + 1 - i])]

\* lines 38-53
wire_struct_fields(self) ==
    LET s == IrGet(self.ir, self.context.ir_file)
    IN  [i \in 1..Len(s.fields) |-> wire_struct_field(s.fields[i])]

\* lines 61-66: one entry of impl_intodart
impl_intodart_field(src, field) ==
    <<"self.", name_rust_style(field, src.is_fields_named), ".into_dart()">>

\* lines 55-82
impl_intodart(self) ==
    LET src == IrGet(self.ir, self.context.ir_file)
        body ==
            Join([i \in 1..Len(src.fields) |-> impl_intodart_field(src, src.fields[i])],
                 ",\n")
    IN  <<"impl support::IntoDart for ", self.ir.name,
          " { fn into_dart(self) -> support::DartCObject { vec![">>
            \o body
            \o <<"].into_dart() } } impl support::IntoDartExceptPrimitive for ",
                 self.ir.name, " {}">>

\* slip: the test of the pointer is inverted
new_with_nullptr_field_inverted(field) ==
    <<rust_style(field.name), ": ",
      IF ~rust_wire_is_pointer(field.ty)
      THEN "core::ptr::null_mut()"
      ELSE "Default::default()",
      ",">>

\* lines 90-100: one entry of new_with_nullptr
new_with_nullptr_field(field) ==
    <<rust_style(field.name), ": ",
      IF rust_wire_is_pointer(field.ty)
      THEN "core::ptr::null_mut()"
      ELSE "Default::default()",
      ",">>

\* lines 84-114
new_with_nullptr(self) ==
    LET src == IrGet(self.ir, self.context.ir_file)
        body ==
            Join([i \in 1..Len(src.fields) |-> new_with_nullptr_field(src.fields[i])], "\n")
    IN  <<"impl NewWithNullPtr for ", StructRustWireType(self.ir),
          " { fn new_with_null_ptr() -> Self { Self { ">>
            \o body
            \o <<" } } }">>

\* slip: an import is returned whether or not the path is set
imports_always_some(self) ==
    LET api_struct == IrGet(self.ir, self.context.ir_file)
    IN  [some |-> TRUE,
         text |-> <<"use ">> \o Join([i \in 1..Len(api_struct.path.segments) |->
                                         <<api_struct.path.segments[i]>>], "::")
                             \o <<";">>]

\* lines 116-126; the result is None when the struct has no path
imports(self) ==
    LET api_struct == IrGet(self.ir, self.context.ir_file)
    IN  IF api_struct.path.some
        THEN [some |-> TRUE,
              text |-> <<"use ">> \o Join([i \in 1..Len(api_struct.path.segments) |->
                                              <<api_struct.path.segments[i]>>], "::")
                                  \o <<";">>]
        ELSE [some |-> FALSE, text |-> <<>>]

(***************************************************************************)
(* Calls of the generator's entry points                                   *)
(***************************************************************************)
InitGen ==
    /\ pc = "generators"
    /\ error = "none"
    /\ config = NoConfig
    /\ files = [p \in Paths |-> NoFile]
    /\ generated_rust = NoRust
    /\ generated_dart = NoDart
    /\ content_original = NoFile
    /\ bindgen_status = "none"
    /\ binder_saw = <<>>
    /\ generated_dart_wire = EmptyCode
    /\ events = <<>>
    /\ \E pool \in [StructNames -> Structs] :
         ir_file = [funcs |-> <<>>, struct_pool |-> pool, transformed |-> TRUE]
    /\ collector = <<>>
    /\ out = NoCall
    /\ repeated = FALSE

Called(entry, name, some, text, list) ==
    /\ repeated' = (out.entry = entry /\ out.name = name)
    /\ out' = [entry |-> entry, name |-> name, some |-> some, text |-> text, list |-> list]

CallWire2ApiBody ==
    /\ pc = "generators"
    /\ \E n \in DOMAIN ir_file.struct_pool :
         Called("wire2api_body", n, TRUE, wire2api_body(Generator(n)), <<>>)
    /\ UNCHANGED <<mainVars, ir_file, collector>>

CallWireStructFields ==
    /\ pc = "generators"
    /\ \E n \in DOMAIN ir_file.struct_pool :
         Called("wire_struct_fields", n, TRUE, <<>>, wire_struct_fields(Generator(n)))
    /\ UNCHANGED <<mainVars, ir_file, collector>>

CallImplIntodart ==
    /\ pc = "generators"
    /\ \E n \in DOMAIN ir_file.struct_pool :
         Called("impl_intodart", n, TRUE, impl_intodart(Generator(n)), <<>>)
    /\ UNCHANGED <<mainVars, ir_file, collector>>

\* slip: the generated constructor is registered with the collector
CallNewWithNullptr_Collecting ==
    /\ pc = "generators"
    /\ \E n \in DOMAIN ir_file.struct_pool :
         /\ Called("new_with_nullptr", n, TRUE, new_with_nullptr(Generator(n)), <<>>)
         /\ collector' = Append(collector, "new_with_null_ptr_" \o n)
    /\ UNCHANGED <<mainVars, ir_file>>

\* the collector is handed over and not used
CallNewWithNullptr ==
    /\ pc = "generators"
    /\ \E n \in DOMAIN ir_file.struct_pool :
         Called("new_with_nullptr", n, TRUE, new_with_nullptr(Generator(n)), <<>>)
    /\ UNCHANGED <<mainVars, ir_file, collector>>

CallImports ==
    /\ pc = "generators"
    /\ \E n \in DOMAIN ir_file.struct_pool :
         LET r == imports(Generator(n))
         IN  Called("imports", n, r.some, r.text, <<>>)
    /\ UNCHANGED <<mainVars, ir_file, collector>>

NextGen ==
    \/ CallWire2ApiBody
    \/ CallWireStructFields
    \/ CallImplIntodart
    \/ CallNewWithNullptr
    \/ CallImports

SpecGen == InitGen /\ [][NextGen]_vars

(***************************************************************************)
(* Properties of the run of main                                           *)
(***************************************************************************)
Happened(e) == e \in Range(events)

Pos(e) == IndexOf(events, e)

Count(e) == Cardinality({i \in 1..Len(events) : events[i] = e})

\* e happened only after d: d is in the history, before every e
Precedes(d, e) ==
    \A i \in 1..Len(events) :
        events[i] = e => \E j \in 1..(i - 1) : events[j] = d

Terminal == pc \in {"done", "aborted"}

\* the writes of the output files
OutputWrites == {"write_rust", "write_c", "write_dart_decl", "write_dart"}

DartWrites == {"write_dart_decl", "write_dart"}

\* every write of a file by the run, the swap and the restore included
FileWrites == OutputWrites \cup {"swap", "restore"}

Formatters == {"format_rust", "format_dart", "format_dart_decl"}

DartFormatters == {"format_dart", "format_dart_decl"}

HoldsDummy(f) ==
    /\ f.exists
    /\ Len(f.text) >= Len(DUMMY_WIRE_CODE_FOR_BINDGEN)
    /\ SubSeq(f.text, Len(f.text) - Len(DUMMY_WIRE_CODE_FOR_BINDGEN) + 1, Len(f.text))
         = DUMMY_WIRE_CODE_FOR_BINDGEN

\* C1 as stated: when the binder invocation has failed, no output file has
\* been written by the run, the native output file included.
C1_NoOutputAtAllOnBinderFailure ==
    bindgen_status = "failed" =>
        /\ \A i \in 1..Len(events) : events[i] \notin OutputWrites
        /\ ~files["rust_output"].exists

\* C1 (amended): when the binder invocation has failed the run aborts with a
\* ToolInvocationError, and neither the C header nor any managed-language
\* file is written by any step of the run; the native output file was
\* written once, by the native generation phase, before the binder ran.
C1_NoHeaderNoDartOnBinderFailure ==
    bindgen_status = "failed" =>
        /\ pc \in {"restore", "aborted"}
        /\ pc = "aborted" => error = "ToolInvocationError"
        /\ \A i \in 1..Len(events) : events[i] \notin {"write_c"} \cup DartWrites
        /\ ~files["c_output"].exists
        /\ ~files["dart_output"].exists
        /\ ~files["dart_decl_output"].exists
        /\ Count("write_rust") = 1
        /\ Pos("write_rust") < Pos("bindgen")

C1_Witness ==
    /\ bindgen_status = "failed"
    /\ pc = "aborted"
    /\ error = "ToolInvocationError"
    /\ files["rust_output"].exists

\* C2: once with_changed_file has been left, on success or failure of the
\* binder, the native output file holds the content it had immediately
\* before the swap, and no terminal state of the run leaves it holding the
\* dummy-augmented content.
C2_NativeFileRestored ==
    /\ Happened("restore") =>
          /\ files["rust_output"] = content_original
          /\ files["rust_output"].text = generated_rust.code
    /\ Happened("swap") /\ Terminal => Happened("restore")
    /\ Terminal => ~HoldsDummy(files["rust_output"])

C2_Witness ==
    /\ pc = "aborted"
    /\ bindgen_status = "failed"
    /\ Happened("restore")
    /\ HoldsDummy([exists |-> TRUE, text |-> binder_saw, formatted |-> FALSE])
    /\ files["rust_output"].formatted

\* C3 as stated: no output file (native file, C header, managed-language
\* file) is written before the sanity check has been executed and passed.
C3_NoWriteBeforeSanityCheck ==
    \A e \in OutputWrites : Precedes("sanity_ok", e)

\* C3 (amended): no managed-language file (declaration or implementation)
\* is written before the sanity check has been executed and has passed; the
\* native file and the C header are written before the sanity check runs.
C3_NoDartWriteBeforeSanityCheck ==
    /\ \A e \in DartWrites : Precedes("sanity_ok", e)
    /\ \A s \in {"sanity_ok", "sanity_failed"} :
          Precedes("write_rust", s) /\ Precedes("write_c", s)

C3_Witness ==
    /\ Happened("sanity_ok")
    /\ Happened("write_dart_decl")
    /\ Happened("write_dart")

\* a tracked exported name is absent from the post-processed body
TrackedNameMissing ==
    \E i \in 1..Len(generated_rust.extern_func_names) :
        generated_rust.extern_func_names[i] \notin Range(generated_dart_wire.body)

WireClassMissing == DartWireClassName \notin Range(generated_dart_wire.body)

C5_BridgeOrder ==
    /\ \A e \in {"swap", "bindgen", "restore", "read_dart_wire"} : Count(e) <= 1
    /\ Precedes("swap", "bindgen")
    /\ Precedes("bindgen", "restore")
    /\ Precedes("restore", "read_dart_wire")
    /\ Happened("bindgen") =>
          /\ Pos("bindgen") = Pos("swap") + 1
          /\ binder_saw = content_original.text \o DUMMY_WIRE_CODE_FOR_BINDGEN
          /\ binder_saw = generated_rust.code \o DUMMY_WIRE_CODE_FOR_BINDGEN
    /\ Happened("restore") => Pos("restore") = Pos("bindgen") + 1
    /\ Happened("read_dart_wire") => bindgen_status = "ok"
    /\ pc = "done" =>
          \A e \in {"swap", "bindgen", "restore", "read_dart_wire"} : Count(e) = 1

C5_Witness ==
    /\ pc = "done"
    /\ Happened("read_dart_wire")
    /\ generated_dart_wire.body # <<>>

\* C6 as stated: every formatter invocation happens after all the writes of
\* the output files, and no output file is written after a formatter ran.
C6_FormattersAfterAllWrites ==
    \A i, j \in 1..Len(events) :
        events[i] \in Formatters /\ events[j] \in OutputWrites => j < i

\* C6 (amended): every managed-language formatter invocation happens after
\* all output files have been written, and no file is written after it; the
\* native formatter runs after the native file has been written and before
\* the C header and the managed-language files are written.
C6_DartFormattersAfterAllWrites ==
    /\ \A i, j \in 1..Len(events) :
          events[i] \in DartFormatters /\ events[j] \in FileWrites => j < i
    /\ \A e \in DartFormatters :
          /\ Precedes("write_rust", e)
          /\ Precedes("write_c", e)
          /\ Precedes("write_dart", e)
    /\ Precedes("write_dart_decl", "format_dart_decl")
    /\ Precedes("write_rust", "format_rust")
    /\ \A e \in {"swap", "write_c"} \cup DartWrites : Precedes("format_rust", e)

C6_Witness ==
    /\ pc = "done"
    /\ Happened("format_rust")
    /\ Happened("format_dart")
    /\ Happened("format_dart_decl")

(***************************************************************************)
(* Properties of the struct generator                                      *)
(***************************************************************************)
\* the pieces of a text between the separators
RECURSIVE SplitOn(_, _)
SplitOn(text, sep) ==
    IF text = <<>> THEN <<>>
    ELSE LET i == IndexOf(text, sep)
         IN  IF i = 0 THEN <<text>>
             ELSE <<SubSeq(text, 1, i - 1)>> \o SplitOn(SubSeq(text, i + 1, Len(text)), sep)

\* the struct the last call was about
OutStruct == ir_file.struct_pool[out.name]

\* the entries of the last call's fragment, one per emitted field
OutEntries ==
    CASE out.entry = "wire2api_body" ->
            SplitOn(SubSeq(out.text, 3, Len(out.text) - 1), ",")
      [] out.entry = "wire_struct_fields" -> out.list
      [] out.entry = "impl_intodart" ->
            SplitOn(SubSeq(out.text, 4, Len(out.text) - 3), ",\n")
      [] out.entry = "new_with_nullptr" ->
            SplitOn(SubSeq(out.text, 4, Len(out.text) - 1), "\n")
      [] OTHER -> <<>>

\* the field an entry is about, as the fragment names it
EntryField(e) ==
    CASE out.entry = "wire2api_body" -> e[Len(e) - 1]
      [] out.entry = "wire_struct_fields" -> e[1]
      [] out.entry = "impl_intodart" -> e[2]
      [] out.entry = "new_with_nullptr" -> e[1]
      [] OTHER -> ""

\* the declared fields, as a fragment of the wire struct names them
DeclaredWireFields(s) == [i \in 1..Len(s.fields) |-> s.fields[i].name.raw]

\* the declared fields, as the API struct names them: by name, or by index
\* for a tuple struct
DeclaredApiFields(s) ==
    [i \in 1..Len(s.fields) |->
        IF s.is_fields_named THEN s.fields[i].name.raw ELSE ToString(i - 1)]

FieldFragments == {"wire2api_body", "wire_struct_fields", "impl_intodart", "new_with_nullptr"}

\* C7: field-order invariant: the fields emitted by wire_struct_fields,
\* wire2api_body, impl_intodart and new_with_nullptr are the declared fields
\* of the struct: as many entries, each declared field once, in declared
\* order.
C7_FieldOrder ==
    out.entry \in FieldFragments =>
        LET es == OutEntries
            emitted == [i \in 1..Len(es) |-> EntryField(es[i])]
        IN  /\ Len(es) = Len(OutStruct.fields)
            /\ emitted = (IF out.entry = "impl_intodart"
                          THEN DeclaredApiFields(OutStruct)
                          ELSE DeclaredWireFields(OutStruct))

C7_Witness ==
    /\ out.entry = "wire_struct_fields"
    /\ Len(OutStruct.fields) = 2
    /\ OutStruct.fields[1].ty # OutStruct.fields[2].ty
    /\ OutStruct.fields[1].name.raw = "b"

NullPointer == "core::ptr::null_mut()"

DefaultValue == "Default::default()"

\* C8: new_with_nullptr initializes every declared field exactly once, with
\* a null pointer when and only when the wire representation of the field's
\* type is a pointer and with the default value otherwise, whatever the
\* field's position and the named/positional flag.
C8_ZeroConstructor ==
    out.entry = "new_with_nullptr" =>
        LET es == OutEntries
            s == OutStruct
        IN  /\ Len(es) = Len(s.fields)
            /\ \A i \in 1..Len(es) :
                  /\ Len(es[i]) = 4
                  /\ es[i][1] = s.fields[i].name.raw
                  /\ es[i][3] \in {NullPointer, DefaultValue}
                  /\ es[i][3] = NullPointer <=> rust_wire_is_pointer(s.fields[i].ty)
                  /\ es[i][3] = DefaultValue <=> ~rust_wire_is_pointer(s.fields[i].ty)

C8_Witness ==
    /\ out.entry = "new_with_nullptr"
    /\ ~OutStruct.is_fields_named
    /\ Len(OutStruct.fields) = 2
    /\ rust_wire_is_pointer(OutStruct.fields[1].ty)
    /\ ~rust_wire_is_pointer(OutStruct.fields[2].ty)

HasLabel(e) == Len(e) = 5 /\ e[2] = ": "

\* C9: in wire2api_body a field label is emitted if and only if the struct
\* has named fields: with named fields every entry is labelled with its
\* field, with positional fields no entry is labelled, and in both cases the
\* entry converts the wire field of the same declared field.
C9_LabelsIffNamed ==
    out.entry = "wire2api_body" =>
        LET es == OutEntries
            s == OutStruct
        IN  /\ Len(es) = Len(s.fields)
            /\ \A i \in 1..Len(es) :
                  /\ HasLabel(es[i]) <=> s.is_fields_named
                  /\ ~HasLabel(es[i]) => Len(es[i]) = 3
                  /\ HasLabel(es[i]) => es[i][1] = s.fields[i].name.raw
                  /\ SubSeq(es[i], Len(es[i]) - 2, Len(es[i]))
                        = <<" self.", s.fields[i].name.raw, ".wire2api()">>

C9_Witness ==
    /\ out.entry = "wire2api_body"
    /\ ~OutStruct.is_fields_named
    /\ Len(OutStruct.fields) = 2
    /\ \E n \in StructNames :
          /\ ir_file.struct_pool[n].is_fields_named
          /\ Len(ir_file.struct_pool[n].fields) = 2

DummyNames(d) == [i \in 1..((Len(d) - 1) \div 2) |-> d[2 * i + 1]]

\* C11: the C header written is the binder-derived header text followed by
\* the dummy declarations; the dummy declarations are generated from the
\* tracked exported names followed by the fixed extra names; the header is
\* written only after the binder has completed and the native file has
\* been restored.
C11_HeaderContent ==
    /\ files["c_output"].exists <=> Happened("write_c")
    /\ files["c_output"].exists =>
          LET parts == SplitOn(files["c_output"].text, "\n")
          IN  /\ Len(parts) = 2
              /\ parts[1] = files["temp_c"].text
              /\ parts[1][1] = "cbindgen_header"
              /\ parts[2][1] = "dummy_method_to_enforce_bundling"
              /\ Len(parts[2]) = 1 + 2 * (Len(generated_rust.extern_func_names)
                                            + Len(EXTRA_EXTERN_FUNC_NAMES))
              /\ DummyNames(parts[2])
                    = generated_rust.extern_func_names \o EXTRA_EXTERN_FUNC_NAMES
    /\ Precedes("bindgen", "write_c")
    /\ Precedes("restore", "write_c")
    /\ Happened("write_c") =>
          /\ bindgen_status = "ok"
          /\ files["rust_output"] = content_original

C11_Witness ==
    /\ files["c_output"].exists
    /\ Len(generated_rust.extern_func_names) = 2
    /\ Len(files["temp_c"].text) = 2

\* the managed-language files that exist
DartFiles == {p \in {"dart_output", "dart_decl_output"} : files[p].exists}

\* the number of times a token occurs in the managed-language files
Occurrences(t) ==
    Cardinality(UNION {{<<p, i>> : i \in {j \in 1..Len(files[p].text) : files[p].text[j] = t}}
                       : p \in DartFiles})

DartWritten == pc \in {"format_dart", "format_dart_decl", "success", "done"}

\* C12: with a declaration output path two managed-language files are
\* written, the declaration file (prelude + declarations) first, then the
\* implementation file (prelude + import of the declaration file +
\* implementation + post-processed wire code); without one a single file
\* is written (prelude + declarations + implementation + wire code). Each
\* of the three streams appears in exactly one written file.
C12_DartLayout ==
    LET prelude == generated_dart.file_prelude
        decl == generated_dart.decl_code
        impl == generated_dart.impl_code
        wire == generated_dart_wire
    IN  /\ config.has_decl => Precedes("write_dart_decl", "write_dart")
        /\ Happened("write_dart_decl") => config.has_decl
        /\ Count("write_dart_decl") <= 1
        /\ Count("write_dart") <= 1
        /\ DartWritten =>
              /\ Happened("write_dart_decl") <=> config.has_decl
              /\ DartFiles = (IF config.has_decl
                              THEN {"dart_output", "dart_decl_output"}
                              ELSE {"dart_output"})
              /\ config.has_decl =>
                    /\ files["dart_decl_output"].text
                          = decl.import \o prelude.body \o decl.body
                    /\ files["dart_output"].text
                          = <<"import_decl_file">> \o impl.import \o wire.import
                               \o prelude.body \o impl.body \o wire.body
              /\ ~config.has_decl =>
                    files["dart_output"].text
                          = decl.import \o impl.import \o wire.import
                               \o prelude.body \o decl.body \o impl.body \o wire.body
              /\ Occurrences("abstract_class") = 1
              /\ Occurrences("impl_class") = 1
              /\ Occurrences(DartWireClassName) = 1
              /\ Occurrences("import_ffi") = 1
              /\ Occurrences("import_decl_file") = (IF config.has_decl THEN 1 ELSE 0)

C12_Witness ==
    /\ pc = "done"
    /\ config.has_decl
    /\ Len(generated_dart_wire.body) = 4
    /\ Len(files["dart_decl_output"].text) = 5

(***************************************************************************)
(* Properties of the runs that abort                                       *)
(***************************************************************************)
OutputPaths == {"rust_output", "c_output", "dart_output", "dart_decl_output"}

\* the output files that exist
Written == {p \in OutputPaths : files[p].exists}

\* the output files of the configured layout
AllOutputs ==
    IF config.has_decl THEN OutputPaths ELSE OutputPaths \ {"dart_decl_output"}

C14_NoRollback ==
    /\ Happened("write_rust") => files["rust_output"].exists
    /\ Happened("write_c") => files["c_output"].exists
    /\ Happened("write_dart_decl") => files["dart_decl_output"].exists
    /\ Happened("write_dart") => files["dart_output"].exists
    /\ pc = "aborted" /\ Happened("write_rust") =>
          /\ files["rust_output"].text = generated_rust.code
          /\ Len(files["rust_output"].text) > 0
          /\ ~HoldsDummy(files["rust_output"])
          /\ Happened("swap") => files["rust_output"] = content_original
    /\ pc = "aborted" /\ Happened("write_c") =>
          /\ SplitOn(files["c_output"].text, "\n")[1] = files["temp_c"].text
          /\ Len(files["c_output"].text) > Len(files["temp_c"].text) + 1

C14_Witness ==
    /\ pc = "aborted"
    /\ error = "SanityCheckError"
    /\ files["rust_output"].formatted
    /\ Len(files["rust_output"].text) = 5
    /\ files["c_output"].exists

\* C15: the availability of the tools is checked first: before the
\* configuration is parsed, before the source file is read and before any
\* file is written; a run that fails because a tool is missing has parsed
\* no configuration, read no input and written no file.
C15_ToolsCheckedFirst ==
    /\ events # <<>> => events[1] = "ensure_tools"
    /\ \A e \in {"parse_config", "read_source", "parse_ir", "add_mod_to_lib",
                 "create_temp_files"} \cup FileWrites :
          Precedes("ensure_tools", e)
    /\ config.parsed => Happened("ensure_tools")
    /\ pc = "aborted" /\ error = "ToolInvocationError" /\ bindgen_status = "none" =>
          /\ events = <<"ensure_tools">>
          /\ config = NoConfig
          /\ ir_file = NoIr
          /\ Written = {}
          /\ ~files["temp_c"].exists
          /\ files["lib_rs"].text = <<"lib">>

C15_Witness ==
    /\ pc = "aborted"
    /\ error = "ToolInvocationError"
    /\ bindgen_status = "none"
    /\ Len(files["rust_input"].text) = 2

InScope == pc \in {"bindgen", "restore"}

\* C17: the native output file holds the dummy-augmented content only while
\* the binder invocation is in progress; the native formatter, the
\* add-module-to-lib step and every write other than the swap and the
\* restore happen outside of that span, with the file holding the generated
\* content; on a successful run the file ends with the generated code as
\* the native formatter left it.
C17_DummyOnlyDuringBinder ==
    /\ HoldsDummy(files["rust_output"]) <=> InScope
    /\ Happened("write_rust") /\ ~InScope =>
          files["rust_output"].text = generated_rust.code
    /\ \A i \in 1..Len(events) :
          events[i] \in {"format_rust", "add_mod_to_lib", "create_temp_files"}
                            \cup OutputWrites \cup DartFormatters
              => \/ ~Happened("swap")
                 \/ i < Pos("swap")
                 \/ Happened("restore") /\ Pos("restore") < i
    /\ Precedes("write_rust", "format_rust")
    /\ Precedes("write_rust", "add_mod_to_lib")
    /\ pc = "done" =>
          /\ files["rust_output"] = content_original
          /\ files["rust_output"].text = generated_rust.code

C17_Witness ==
    /\ pc = "done"
    /\ files["rust_output"].formatted
    /\ Happened("add_mod_to_lib")
    /\ Len(binder_saw) = Len(files["rust_output"].text) + 1
    /\ Len(generated_rust.extern_func_names) = 1

(***************************************************************************)
(* Properties of the struct generator's imports and field names            *)
(***************************************************************************)
\* C16: imports returns an import if and only if the declaration of the
\* struct carries a source-module path: when the path is set the import of
\* that path, its segments joined by :: in their order, and nothing when it
\* is not set.
C16_ImportsIffPath ==
    out.entry = "imports" =>
        LET path == OutStruct.path
        IN  /\ out.some <=> path.some
            /\ out.some =>
                  /\ Len(out.text) >= 2
                  /\ Head(out.text) = "use "
                  /\ out.text[Len(out.text)] = ";"
                  /\ SplitOn(SubSeq(out.text, 2, Len(out.text) - 1), "::")
                        = [i \in 1..Len(path.segments) |-> <<path.segments[i]>>]
            /\ ~out.some => out.text = <<>>

C16_Witness ==
    /\ out.entry = "imports"
    /\ out.some
    /\ Len(out.text) = 5
    /\ \E n \in StructNames : ~ir_file.struct_pool[n].path.some

\* the names under which wire_struct_fields declares the fields of the
\* struct the last call was about
WireFieldNames ==
    LET decl == wire_struct_fields(Generator(out.name))
    IN  [i \in 1..Len(decl) |-> decl[i][1]]

\* the names the last call's fragment uses, in order
EmittedNames == [i \in 1..Len(OutEntries) |-> EntryField(OutEntries[i])]

\* C18: for every struct, named or positional, the fields wire2api_body
\* reads from self and the fields new_with_nullptr initializes are the
\* fields wire_struct_fields declares, under the same names and each exactly
\* once; impl_intodart alone names the fields by the named/positional flag:
\* by name for a struct with named fields, by index for a tuple struct.
C18_WireFieldNames ==
    /\ out.entry \in {"wire2api_body", "new_with_nullptr"} =>
          /\ EmittedNames = WireFieldNames
          /\ \A i, j \in 1..Len(WireFieldNames) :
                WireFieldNames[i] = WireFieldNames[j] => i = j
          /\ \A d \in Range(WireFieldNames) :
                Cardinality({i \in 1..Len(EmittedNames) : EmittedNames[i] = d}) = 1
          /\ Range(EmittedNames) \subseteq Range(WireFieldNames)
    /\ out.entry = "wire2api_body" =>
          \A i \in 1..Len(OutEntries) :
             OutEntries[i][Len(OutEntries[i]) - 2] = " self."
    /\ out.entry = "impl_intodart" =>
          /\ OutStruct.is_fields_named => EmittedNames = WireFieldNames
          /\ ~OutStruct.is_fields_named =>
                /\ EmittedNames = [i \in 1..Len(WireFieldNames) |-> ToString(i - 1)]
                /\ \A i \in 1..Len(WireFieldNames) :
                      WireFieldNames[i] = "field" \o EmittedNames[i]

C18_Witness ==
    /\ out.entry = "wire2api_body"
    /\ ~OutStruct.is_fields_named
    /\ WireFieldNames = <<"field0", "field1">>
    /\ EmittedNames = WireFieldNames

====
